---- MODULE Spec2Model ----
(***************************************************************************)
(* Model of src/auto_checkin.py: main() reads TOKENS / ACCOUNT_NAMES,      *)
(* runs KurobbsClient.start() for every non-empty token (check-in, then    *)
(* community sign-in), aggregates the outcomes, sends one notification and *)
(* sets the exit status.                                                   *)
(*                                                                         *)
(* Text is a sequence of pieces (one-character strings for the environment *)
(* values, whole literals for the fixed message parts), so that split,     *)
(* strip, join and f-string concatenation are computed, not assumed.  The  *)
(* Chinese literals of the source are written as ASCII labels; each label  *)
(* names its literal.  Log records below level INFO (logger.debug) and the *)
(* static request headers / reqMonth field are left out: nothing read by   *)
(* the control flow depends on them.  The except clause of main's loop     *)
(* (lines 240-242) has no step: checkin and sign_in turn every Exception   *)
(* into a KurobbsClientException, which _process_sign_action catches, so   *)
(* start() lets none out.                                                  *)
(***************************************************************************)
EXTENDS Integers, Sequences, FiniteSets, TLC

VARIABLES
    tokens_str,         \* os.getenv("TOKENS", "")
    account_names_str,  \* os.getenv("ACCOUNT_NAMES", "")
    tokens,             \* main: tokens
    account_names,      \* main: account_names
    i,                  \* main: loop index of enumerate(tokens), 0-based
    pc,                 \* position of the (single) thread of control
    kurobbs,            \* the KurobbsClient objects built so far, by i + 1
    mine_info,          \* checkin: mine_info
    user_game_list,     \* checkin: user_game_list
    all_results,        \* main: all_results
    all_errors,         \* main: all_errors
    sent,               \* the arguments of the calls of send_notification
    exit_code,          \* the process exit status; -1 while the process runs
    requests,           \* the calls of requests.post, with what each returned
    log                 \* the records handed to loguru at INFO and above

vars == <<tokens_str, account_names_str, tokens, account_names, i, pc, kurobbs,
          mine_info, user_game_list, all_results, all_errors, sent, exit_code, requests, log>>

----------------------------------------------------------------------------
(* Bounds of the checked instance *)

\* most fields (semicolon-separated entries) in TOKENS
MaxTokens == 2

\* most entries in ACCOUNT_NAMES
MaxNames == 2

----------------------------------------------------------------------------
(* Strings *)

Digits == <<"0", "1", "2", "3", "4", "5", "6", "7", "8", "9">>

RECURSIVE Str(_)
\* str(n) for n >= 0
Str(n) ==
    IF n < 10 THEN <<Digits[n + 1]>>
    ELSE Str(n \div 10) \o <<Digits[(n % 10) + 1]>>

RECURSIVE Split(_, _)
\* s.split(sep) for a one-character sep
Split(s, sep) ==
    IF \A k \in 1..Len(s) : s[k] # sep THEN <<s>>
    ELSE LET k == CHOOSE j \in 1..Len(s) :
                      s[j] = sep /\ \A m \in 1..(j - 1) : s[m] # sep
         IN <<SubSeq(s, 1, k - 1)>> \o Split(SubSeq(s, k + 1, Len(s)), sep)

RECURSIVE Join(_, _)
\* sep.join(parts)
Join(parts, sep) ==
    IF parts = <<>> THEN <<>>
    ELSE IF Len(parts) = 1 THEN parts[1]
    ELSE parts[1] \o sep \o Join(Tail(parts), sep)

\* Strip without the stripping: a blank token counts as a token
StripNone(s) == s

RECURSIVE Strip(_)
\* s.strip()
Strip(s) ==
    IF s = <<>> THEN s
    ELSE IF Head(s) = " " THEN Strip(Tail(s))
    ELSE IF s[Len(s)] = " " THEN Strip(SubSeq(s, 1, Len(s) - 1))
    ELSE s

----------------------------------------------------------------------------
(* Literals *)

FIND_ROLE_LIST_API_URL == "/gamer/role/default"
SIGN_URL == "/encourage/signIn/v2"
USER_SIGN_URL == "/user/signIn"
USER_MINE_URL == "/user/mineV2"

\* "签到奖励签到成功" / "签到奖励签到失败"
CheckinSuccessMessage == "checkin ok"
CheckinFailureMessage == "checkin failed"
\* "社区签到成功" / "社区签到失败"
SignInSuccessMessage == "sign-in ok"
SignInFailureMessage == "sign-in failed"
\* "无法获取用户ID", "未找到角色信息", "API响应解析失败"
NoUserIdMessage == "no user id"
NoRoleMessage == "no role info"
ParseFailedMessage == "API response parse failed"
\* "没有需要处理的账号"
NoAccountsMessage == <<"no accounts to process">>

\* f"[{account_name}] "
Bracket(name) == <<"[">> \o name \o <<"] ">>

\* f"账号{i+1}" for every index of tokens
DefaultNames(n) == [k \in 1..n |-> <<"Account">> \o Str(k)]

----------------------------------------------------------------------------
(* What the server (or the network) answers to one POST *)

\* Response.msg of the answers below
ServerMsg == "server msg"

\* requests.post raises: no response at all
Raise == [kind |-> "raise"]

\* a body that Response.model_validate_json rejects (no code / no msg)
Invalid == [kind |-> "invalid"]

\* a body with code and msg only: success and data are left absent (None)
Bare == [kind |-> "ok", code |-> 200, msg |-> ServerMsg]

\* the envelope {code, msg, success}
Envelope(success) == [kind |-> "ok", code |-> 200, msg |-> ServerMsg, success |-> success]

\* the envelope {code, msg, data}
WithData(data) == [kind |-> "ok", code |-> 200, msg |-> ServerMsg, data |-> data]

\* a role of the user, as /gamer/role/default lists it
Role == [gameId |-> 3, serverId |-> "srv", roleId |-> 5, userId |-> 7]

\* The answers tried at each request.  make_request and the except clauses of
\* checkin and sign_in treat the four requests alike, so each way the code can go
\* on is tried where it first arises: a lookup gets no answer (requests.post
\* raises inside checkin), a payload that lacks what checkin reads, or a good
\* payload; the reward POST gets a rejected body (make_request raises its own
\* error inside checkin), success true or success false; the community sign-in
\* gets all four.

\* answers to /user/mineV2
MineResponses == {Raise, Bare, WithData([mine |-> [userId |-> 7]])}

\* answers to /gamer/role/default
RoleResponses ==
    {Raise, WithData([defaultRoleList |-> <<>>]), WithData([defaultRoleList |-> <<Role>>])}

\* answers to /encourage/signIn/v2
CheckinResponses == {Invalid, Envelope(TRUE), Envelope(FALSE)}

\* answers to /user/signIn
SignInResponses == {Raise, Invalid, Envelope(TRUE), Envelope(FALSE)}

\* Response.data, None when absent (None and an empty payload are both falsy)
DataOf(res) == IF "data" \in DOMAIN res THEN res.data ELSE <<>>

\* bool(resp.success): success is Optional[bool], None when absent
Succeeded(res) == "success" \in DOMAIN res /\ res.success

----------------------------------------------------------------------------
(* KurobbsClient *)

\* KurobbsClient.__init__
NewClient(token, account_name) ==
    [token |-> token, account_name |-> account_name, result |-> <<>>, exceptions |-> <<>>]

\* self.result[key] = value on an insertion-ordered dict
DictSet(d, key, value) ==
    IF \E k \in 1..Len(d) : d[k].key = key
    THEN [k \in 1..Len(d) |-> IF d[k].key = key THEN [key |-> key, value |-> value] ELSE d[k]]
    ELSE Append(d, [key |-> key, value |-> value])

\* KurobbsClient.msg
Msg(c) ==
    IF c.result = <<>> THEN <<>>
    ELSE Join([k \in 1..Len(c.result) |-> c.result[k].value], <<", ">>) \o <<"!">>

\* make_request: what the call does with answer r.  raised: an exception leaves
\* the call; client_error: it is a KurobbsClientException; text: str(e); logs: the
\* records it logged.
MakeRequest(c, r) ==
    IF r.kind = "raise"
    THEN [raised |-> TRUE, client_error |-> FALSE, text |-> <<"ConnectionError">>, logs |-> <<>>]
    ELSE IF r.kind = "invalid"
    THEN [raised |-> TRUE, client_error |-> TRUE,
          text |-> Bracket(c.account_name) \o <<ParseFailedMessage, ": ", "ValidationError">>,
          logs |-> <<[level |-> "ERROR",
                      msg |-> Bracket(c.account_name)
                                \o <<"parse response failed", ": ", "ValidationError">>]>>]
    ELSE [raised |-> FALSE, client_error |-> FALSE, text |-> <<>>, logs |-> <<>>]

\* checkin's except clause: every exception leaves as a KurobbsClientException
CheckinError(c, text) ==
    Bracket(c.account_name) \o <<CheckinFailureMessage, ": ">> \o text

\* sign_in's except clause
SignInError(c, text) ==
    Bracket(c.account_name) \o <<SignInFailureMessage, ": ">> \o text

\* Caught with the exception swallowed instead of appended
CaughtDropped(c, text) == c

\* _process_sign_action, the except branch: the caught exception is appended
Caught(c, text) == [c EXCEPT !.exceptions = Append(@, text)]

\* Processed with the server's msg left out of the failure
ProcessedNoMsg(c, action_name, resp, success_message, failure_message) ==
    IF Succeeded(resp)
    THEN [c EXCEPT !.result =
              DictSet(@, action_name, Bracket(c.account_name) \o <<success_message>>)]
    ELSE [c EXCEPT !.exceptions =
              Append(@, Bracket(c.account_name) \o <<failure_message>>)]

\* _process_sign_action, the try branch, for the Response the action returned
Processed(c, action_name, resp, success_message, failure_message) ==
    IF Succeeded(resp)
    THEN [c EXCEPT !.result =
              DictSet(@, action_name, Bracket(c.account_name) \o <<success_message>>)]
    ELSE [c EXCEPT !.exceptions =
              Append(@, Bracket(c.account_name) \o <<failure_message, ": ", resp.msg>>)]

\* _log: the records it hands to the logger
LogOf(c) ==
    (IF Msg(c) # <<>> THEN <<[level |-> "SUCCESS", msg |-> Msg(c)]>> ELSE <<>>)
    \o [k \in 1..Len(c.exceptions) |-> [level |-> "ERROR", msg |-> c.exceptions[k]]]

----------------------------------------------------------------------------
(* main: configuration *)

\* tokens_str.split(';') if tokens_str else []
ParseList(s) == IF s # <<>> THEN Split(s, ";") ELSE <<>>

\* AccountNames pairing the names there are and defaulting the rest
AccountNamesPartial(toks, names_str) ==
    LET names == ParseList(names_str)
    IN [k \in 1..Len(toks) |->
           IF k <= Len(names) THEN names[k] ELSE DefaultNames(Len(toks))[k]]

\* lines 204-216: the names of the accounts, by position in tokens
AccountNames(toks, names_str) ==
    LET names == ParseList(names_str)
        kept == IF names # <<>> /\ Len(names) # Len(toks) THEN <<>> ELSE names
    IN IF kept = <<>> THEN DefaultNames(Len(toks)) ELSE kept

\* line 210: the count of names does not match the count of tokens
NamesMismatch(toks, names_str) ==
    ParseList(names_str) # <<>> /\ Len(ParseList(names_str)) # Len(toks)

\* lines 245-254: the text handed to send_notification
FinalMessage(results, errors) ==
    LET text == (IF results # <<>>
                 THEN <<"OK:", "\n">> \o Join(results, <<"\n">>) \o <<"\n", "\n">>
                 ELSE <<>>)
                \o (IF errors # <<>>
                    THEN <<"ERRORS:", "\n">> \o Join(errors, <<"\n">>)
                    ELSE <<>>)
    IN IF text = <<>> THEN NoAccountsMessage ELSE text

\* ExitStatus with the sys.exit(1) left out
ExitStatusZero(errors) == 0

\* ExitStatus with the sys.exit(1) made unconditional
ExitStatusOne(errors) == 1

\* lines 262-263: sys.exit(1) if all_errors, else the interpreter ends with 0
ExitStatus(errors) == IF errors # <<>> THEN 1 ELSE 0

\* role_info.get(key, default)
Get(d, key, default) == IF key \in DOMAIN d THEN d[key] ELSE default

\* line 85, negated: the profile payload holds mine.userId
HasUserId(info) ==
    /\ DOMAIN info # {}
    /\ "mine" \in DOMAIN info
    /\ "userId" \in DOMAIN info["mine"]

\* line 96, negated: the role payload holds a non-empty defaultRoleList
HasRole(list) ==
    /\ DOMAIN list # {}
    /\ "defaultRoleList" \in DOMAIN list
    /\ list["defaultRoleList"] # <<>>

\* StartOrder with the two actions swapped
StartOrderSwapped == <<"sign_in", "checkin">>

\* lines 149-161: the actions start() runs, in its order
StartOrder == <<"checkin", "sign_in">>

\* LoopAfter with the loop left at the first account that recorded a failure
LoopAfterAbort(idx, c, n) == IF c.exceptions # <<>> THEN n ELSE idx + 1

\* lines 222-242: the loop goes on to the next token, whatever start() recorded
LoopAfter(idx, c, n) == idx + 1

\* lines 233-234: all_results after the account of client c
CollectedResults(results, c) ==
    IF Msg(c) # <<>> THEN Append(results, Msg(c)) ELSE results

\* CollectedErrors keeping only the first failure of the account
CollectedFirstError(errors, c) ==
    errors \o (IF c.exceptions # <<>> THEN <<c.exceptions[1]>> ELSE <<>>)

\* lines 237-238: all_errors after the account of client c
CollectedErrors(errors, c) == errors \o c.exceptions

\* Notified with the call left out when no account was processed
NotifiedIfAny(calls, message) ==
    IF message = NoAccountsMessage THEN calls ELSE Append(calls, message)

\* line 259: the calls of send_notification after this one
Notified(calls, message) == Append(calls, message)

----------------------------------------------------------------------------
(* The inputs of a run *)

\* a field of TOKENS: empty, blank, or a token
TokenFields == {<<>>, <<" ">>, <<"t">>}

\* the values of TOKENS: up to MaxTokens fields joined by ';' ("" is unset)
TokenInputs ==
    {Join(f, <<";">>) : f \in UNION {[1..n -> TokenFields] : n \in 1..MaxTokens}}

\* the values of ACCOUNT_NAMES: "" (unset), "n1", "n1;n2", ...
NameInputs ==
    {Join([k \in 1..m |-> <<"n">> \o Str(k)], <<";">>) : m \in 0..MaxNames}

Init ==
    /\ tokens_str \in TokenInputs
    /\ account_names_str \in NameInputs
    /\ tokens = <<>>
    /\ account_names = <<>>
    /\ i = 0
    /\ pc = "main"
    /\ kurobbs = <<>>
    /\ mine_info = <<>>
    /\ user_game_list = <<>>
    /\ all_results = <<>>
    /\ all_errors = <<>>
    /\ sent = <<>>
    /\ exit_code = -1
    /\ requests = <<>>
    /\ log = <<>>

----------------------------------------------------------------------------
(* The steps of main *)

\* the request record kept for a call of requests.post by the current client
Posted(url, data, res) ==
    [account |-> i + 1, token |-> kurobbs[i + 1].token, url |-> url, data |-> data,
     res |-> res]

\* lines 193-219
ParseConfig ==
    /\ pc = "main"
    /\ tokens' = ParseList(tokens_str)
    /\ account_names' = AccountNames(ParseList(tokens_str), account_names_str)
    /\ log' = IF NamesMismatch(ParseList(tokens_str), account_names_str)
              THEN Append(log, [level |-> "WARNING", msg |-> <<"name count mismatch">>])
              ELSE log
    /\ pc' = "loop"
    /\ UNCHANGED <<tokens_str, account_names_str, i, kurobbs, mine_info, user_game_list,
                   all_results, all_errors, sent, exit_code, requests>>

\* lines 222-225: an iteration over a token that is empty once stripped
SkipToken ==
    /\ pc = "loop"
    /\ i < Len(tokens)
    /\ Strip(tokens[i + 1]) = <<>>
    /\ i' = i + 1
    /\ UNCHANGED <<tokens_str, account_names_str, tokens, account_names, pc, kurobbs,
                   mine_info, user_game_list, all_results, all_errors, sent, exit_code,
                   requests, log>>

\* lines 222-231 and 147: the iteration builds the client and enters start()
StartAccount ==
    /\ pc = "loop"
    /\ i < Len(tokens)
    /\ Strip(tokens[i + 1]) # <<>>
    /\ kurobbs' = ((i + 1) :> NewClient(Strip(tokens[i + 1]), account_names[i + 1])) @@ kurobbs
    /\ log' = log \o <<[level |-> "INFO",
                        msg |-> <<"account ">> \o Str(i + 1) \o <<"/">> \o Str(Len(tokens))
                                  \o <<": ">> \o account_names[i + 1]],
                       [level |-> "INFO", msg |-> <<"start: ">> \o account_names[i + 1]]>>
    /\ mine_info' = <<>>
    /\ user_game_list' = <<>>
    /\ pc' = StartOrder[1]
    /\ UNCHANGED <<tokens_str, account_names_str, tokens, account_names, i, all_results,
                   all_errors, sent, exit_code, requests>>

\* An action of start() has ended (_process_sign_action returned) and left the
\* client as c, having logged logs.  After the last action start() runs _log and
\* main collects the outcome (lines 163, 233-238) and moves to the next token.
ActionDone(action_name, c, logs) ==
    /\ kurobbs' = [kurobbs EXCEPT ![i + 1] = c]
    /\ IF action_name = StartOrder[Len(StartOrder)]
       THEN /\ log' = log \o logs \o LogOf(c)
            /\ all_results' = CollectedResults(all_results, c)
            /\ all_errors' = CollectedErrors(all_errors, c)
            /\ i' = LoopAfter(i, c, Len(tokens))
            /\ pc' = "loop"
       ELSE /\ log' = log \o logs
            /\ pc' = StartOrder[1 + CHOOSE k \in 1..Len(StartOrder) :
                                       StartOrder[k] = action_name]
            /\ UNCHANGED <<all_results, all_errors, i>>

\* lines 84-88 (and 109-111, 142-143 when it fails): the profile lookup
GetMineInfo ==
    /\ pc = "checkin"
    /\ \E r \in MineResponses :
         LET c == kurobbs[i + 1]
             m == MakeRequest(c, r)
         IN /\ requests' = Append(requests, Posted(USER_MINE_URL, [type |-> 1], r))
            /\ IF m.raised
               THEN /\ ActionDone("checkin", Caught(c, CheckinError(c, m.text)), m.logs)
                    /\ UNCHANGED mine_info
               ELSE IF ~HasUserId(DataOf(r))
               THEN /\ ActionDone("checkin",
                         Caught(c, CheckinError(c, Bracket(c.account_name)
                                                       \o <<NoUserIdMessage>>)), <<>>)
                    /\ UNCHANGED mine_info
               ELSE /\ mine_info' = DataOf(r)
                    /\ pc' = "get_user_game_list"
                    /\ UNCHANGED <<kurobbs, log, all_results, all_errors, i>>
    /\ UNCHANGED <<tokens_str, account_names_str, tokens, account_names, user_game_list,
                   sent, exit_code>>

\* lines 88-97 (and 109-111, 142-143 when it fails): the role-list lookup
GetUserGameList ==
    /\ pc = "get_user_game_list"
    /\ \E r \in RoleResponses :
         LET c == kurobbs[i + 1]
             m == MakeRequest(c, r)
             user_id == mine_info["mine"]["userId"]
         IN /\ requests' = Append(requests,
                   Posted(FIND_ROLE_LIST_API_URL, [queryUserId |-> user_id], r))
            /\ IF m.raised
               THEN /\ ActionDone("checkin", Caught(c, CheckinError(c, m.text)), m.logs)
                    /\ UNCHANGED user_game_list
               ELSE IF ~HasRole(DataOf(r))
               THEN /\ ActionDone("checkin",
                         Caught(c, CheckinError(c, Bracket(c.account_name)
                                                       \o <<NoRoleMessage>>)), <<>>)
                    /\ UNCHANGED user_game_list
               ELSE /\ user_game_list' = DataOf(r)
                    /\ pc' = "sign_url"
                    /\ UNCHANGED <<kurobbs, log, all_results, all_errors, i>>
    /\ UNCHANGED <<tokens_str, account_names_str, tokens, account_names, mine_info,
                   sent, exit_code>>

\* lines 99-108 and 136-143: the reward check-in POST and what start() records
Checkin ==
    /\ pc = "sign_url"
    /\ \E r \in CheckinResponses :
         LET c == kurobbs[i + 1]
             m == MakeRequest(c, r)
             role_info == user_game_list["defaultRoleList"][1]
             data == [gameId |-> Get(role_info, "gameId", 2),
                      serverId |-> Get(role_info, "serverId", "None"),
                      roleId |-> Get(role_info, "roleId", 0),
                      userId |-> Get(role_info, "userId", 0)]
         IN /\ requests' = Append(requests, Posted(SIGN_URL, data, r))
            /\ IF m.raised
               THEN ActionDone("checkin", Caught(c, CheckinError(c, m.text)), m.logs)
               ELSE ActionDone("checkin",
                        Processed(c, "checkin", r, CheckinSuccessMessage,
                                  CheckinFailureMessage), <<>>)
    /\ UNCHANGED <<tokens_str, account_names_str, tokens, account_names, mine_info,
                   user_game_list, sent, exit_code>>

\* lines 113-119 and 136-143: the community sign-in POST and what start() records
SignIn ==
    /\ pc = "sign_in"
    /\ \E r \in SignInResponses :
         LET c == kurobbs[i + 1]
             m == MakeRequest(c, r)
         IN /\ requests' = Append(requests, Posted(USER_SIGN_URL, [gameId |-> 2], r))
            /\ IF m.raised
               THEN ActionDone("sign_in", Caught(c, SignInError(c, m.text)), m.logs)
               ELSE ActionDone("sign_in",
                        Processed(c, "sign_in", r, SignInSuccessMessage,
                                  SignInFailureMessage), <<>>)
    /\ UNCHANGED <<tokens_str, account_names_str, tokens, account_names, mine_info,
                   user_game_list, sent, exit_code>>

\* lines 244-259: the loop is over; the summary is built, logged and sent
Notify ==
    /\ pc = "loop"
    /\ i >= Len(tokens)
    /\ log' = log \o <<[level |-> "INFO", msg |-> <<"all accounts done">>],
                       [level |-> "INFO", msg |-> FinalMessage(all_results, all_errors)]>>
    /\ sent' = Notified(sent, FinalMessage(all_results, all_errors))
    /\ pc' = "exit"
    /\ UNCHANGED <<tokens_str, account_names_str, tokens, account_names, i, kurobbs,
                   mine_info, user_game_list, all_results, all_errors, exit_code, requests>>

\* lines 261-263: the exit status
Exit ==
    /\ pc = "exit"
    /\ exit_code' = ExitStatus(all_errors)
    /\ pc' = "done"
    /\ UNCHANGED <<tokens_str, account_names_str, tokens, account_names, i, kurobbs,
                   mine_info, user_game_list, all_results, all_errors, sent, requests, log>>

Next ==
    \/ ParseConfig
    \/ SkipToken
    \/ StartAccount
    \/ GetMineInfo
    \/ GetUserGameList
    \/ Checkin
    \/ SignIn
    \/ Notify
    \/ Exit

Spec == Init /\ [][Next]_vars

----------------------------------------------------------------------------
(* Vocabulary of the properties *)

\* whether text t occurs in text s
IsInfix(t, s) ==
    \/ t = <<>>
    \/ \E k \in 0..(Len(s) - Len(t)) : \A m \in 1..Len(t) : s[k + m] = t[m]

\* the result map d has an entry for key
HasKey(d, key) == \E k \in 1..Len(d) : d[k].key = key

\* s holds nothing but white space
Blank(s) == \A k \in 1..Len(s) : s[k] = " "

\* a POST to url was issued for the account at position k
Attempted(k, url) ==
    \E j \in 1..Len(requests) : requests[j].account = k /\ requests[j].url = url

\* the answer q.res carries a payload with field f
Carries(q, f) ==
    q.res.kind = "ok" /\ "data" \in DOMAIN q.res /\ f \in DOMAIN q.res.data

\* the request q got no usable answer, or one that makes its action fail
Failed(q) ==
    \/ q.res.kind # "ok"
    \/ q.url = USER_MINE_URL
         /\ ~(Carries(q, "mine") /\ "userId" \in DOMAIN q.res.data.mine)
    \/ q.url = FIND_ROLE_LIST_API_URL
         /\ ~(Carries(q, "defaultRoleList") /\ Len(q.res.data.defaultRoleList) > 0)
    \/ q.url \in {SIGN_URL, USER_SIGN_URL}
         /\ ~("success" \in DOMAIN q.res /\ q.res.success = TRUE)

\* the request q was answered with an envelope whose success is false
SuccessFalse(q) ==
    /\ q.url \in {SIGN_URL, USER_SIGN_URL}
    /\ q.res.kind = "ok"
    /\ "success" \in DOMAIN q.res
    /\ q.res.success = FALSE

\* the request q got a role list that is empty
EmptyRoleList(q) ==
    /\ q.url = FIND_ROLE_LIST_API_URL
    /\ Carries(q, "defaultRoleList")
    /\ Len(q.res.data.defaultRoleList) = 0

\* the positions of tokens whose iteration is over
Finished == 1..(IF i < Len(tokens) THEN i ELSE Len(tokens))

----------------------------------------------------------------------------
(* C1 *)

\* C1: whatever happened to the accounts before it, every non-empty token whose
\* iteration is over had start() run for it: a client was built and both the
\* check-in (its first lookup) and the community sign-in were attempted.  The
\* loop never ends before the last token.
C1_LaterAccountsProcessed ==
    /\ \A k \in Finished :
         ~Blank(tokens[k]) =>
             /\ k \in DOMAIN kurobbs
             /\ Attempted(k, USER_MINE_URL)
             /\ Attempted(k, USER_SIGN_URL)
    /\ pc \in {"exit", "done"} => i = Len(tokens)

\* an account whose two actions both failed is followed by an account that was
\* processed in full
C1_Witness ==
    /\ pc = "done"
    /\ \E k \in DOMAIN kurobbs, m \in DOMAIN kurobbs :
         /\ k < m
         /\ Len(kurobbs[k].exceptions) = 2
         /\ Attempted(m, USER_MINE_URL)
         /\ Attempted(m, USER_SIGN_URL)

----------------------------------------------------------------------------
(* C2 *)

\* C2: send_notification is called exactly once in a run: never before the loop
\* is over (every token's iteration finished, no request follows), and once by
\* the time the exit status is set.
C2_NotifiedOnce ==
    /\ Len(sent) <= 1
    /\ (pc \in {"exit", "done"}) <=> (Len(sent) = 1)
    /\ sent # <<>> => i = Len(tokens) /\ Finished = 1..Len(tokens)
    /\ exit_code # -1 => pc = "done" /\ Len(sent) = 1
    /\ pc = "done" => exit_code # -1

\* a run over a list of empty tokens only has ended with its one notification
C2_Witness ==
    /\ pc = "done"
    /\ Len(tokens) > 1
    /\ \A k \in 1..Len(tokens) : Blank(tokens[k])
    /\ Len(sent) = 1

----------------------------------------------------------------------------
(* C3 *)

\* C3: the exit status is 1 exactly when some request of the run failed (no
\* answer, a rejected body, missing profile or role data, success not true),
\* and 0 otherwise.
C3_ExitCodeIffFailure ==
    pc = "done" =>
        /\ exit_code \in {0, 1}
        /\ (exit_code # 0) <=> (\E j \in 1..Len(requests) : Failed(requests[j]))

\* a run where one account succeeded and another failed has ended with status 1
C3_Witness ==
    /\ pc = "done"
    /\ exit_code = 1
    /\ all_results # <<>>
    /\ \E j \in 1..Len(requests) : SuccessFalse(requests[j])

----------------------------------------------------------------------------
(* C4 *)

\* C4 as claimed: with no tokens configured the run ends with exit code 1
C4_NoTokensExitOne ==
    (pc = "done" /\ tokens_str = <<>>) => exit_code = 1

\* C4, amended: with no tokens configured no account is processed and the run
\* ends with exit code 0.
C4_NoTokensExitZero ==
    (pc = "done" /\ tokens_str = <<>>) =>
        /\ exit_code = 0
        /\ requests = <<>>
        /\ DOMAIN kurobbs = {}

\* a run with TOKENS unset has ended
C4_Witness ==
    /\ pc = "done"
    /\ tokens_str = <<>>
    /\ sent = <<NoAccountsMessage>>

----------------------------------------------------------------------------
(* C5 *)

\* C5: every failure appended to a client's exceptions list is part of the text
\* of the one notification, and a run with such a failure ends with a non-zero
\* exit status.
C5_FailuresSurfaced ==
    /\ pc \in {"exit", "done"} =>
         /\ Len(sent) = 1
         /\ \A k \in DOMAIN kurobbs :
              \A e \in 1..Len(kurobbs[k].exceptions) :
                  IsInfix(kurobbs[k].exceptions[e], sent[1])
    /\ pc = "done" =>
         ((\E k \in DOMAIN kurobbs : kurobbs[k].exceptions # <<>>) => exit_code # 0)

\* the notification was sent in a run where one account recorded two failures
\* and another account one
C5_Witness ==
    /\ pc = "done"
    /\ \E k \in DOMAIN kurobbs, m \in DOMAIN kurobbs :
         /\ k # m
         /\ Len(kurobbs[k].exceptions) = 2
         /\ Len(kurobbs[m].exceptions) = 1
         /\ kurobbs[m].result # <<>>

----------------------------------------------------------------------------
(* C6 *)

\* what a step that receives a success=false envelope does to the clients
C6_Step ==
    (Len(requests') = Len(requests) + 1 /\ SuccessFalse(requests'[Len(requests')])) =>
        LET q == requests'[Len(requests')]
            before == kurobbs[q.account]
            after == kurobbs'[q.account]
            label == IF q.url = SIGN_URL THEN CheckinFailureMessage
                     ELSE SignInFailureMessage
        IN /\ Len(after.exceptions) = Len(before.exceptions) + 1
           /\ SubSeq(after.exceptions, 1, Len(before.exceptions)) = before.exceptions
           /\ IsInfix(<<label>>, after.exceptions[Len(after.exceptions)])
           /\ IsInfix(<<q.res.msg>>, after.exceptions[Len(after.exceptions)])
           /\ after.result = before.result
           /\ \A k \in DOMAIN kurobbs \ {q.account} : kurobbs'[k] = kurobbs[k]

\* C6: an action (check-in or sign-in) answered with success=false appends
\* exactly one failure to the account's exceptions, holding the action's failure
\* label and the server's msg, and writes nothing to the result map, whose
\* entries (the other action's) stay as they were.
C6_SuccessFalseRecorded == [][C6_Step]_vars

\* the sign-in of an account was answered success=false after its check-in had
\* succeeded: one failure, and the check-in entry is still in the result map
C6_Witness ==
    \E j \in 1..Len(requests) :
        /\ SuccessFalse(requests[j])
        /\ requests[j].url = USER_SIGN_URL
        /\ requests[j].account \in DOMAIN kurobbs
        /\ HasKey(kurobbs[requests[j].account].result, "checkin")
        /\ Len(kurobbs[requests[j].account].exceptions) = 1

----------------------------------------------------------------------------
(* C7 *)

\* C7: when the role lookup returns an empty defaultRoleList, no reward check-in
\* POST is issued for the account, a failure naming the account is recorded in
\* its exceptions and no check-in success, and the community sign-in is still
\* attempted, its success recorded exactly when its answer says success.
C7_EmptyRoleList ==
    \A j \in 1..Len(requests) :
        EmptyRoleList(requests[j]) =>
            LET k == requests[j].account
                c == kurobbs[k]
            IN /\ ~Attempted(k, SIGN_URL)
               /\ \E e \in 1..Len(c.exceptions) :
                      /\ IsInfix(Bracket(c.account_name), c.exceptions[e])
                      /\ IsInfix(<<NoRoleMessage>>, c.exceptions[e])
               /\ ~HasKey(c.result, "checkin")
               /\ IF k \in Finished
                  THEN /\ Attempted(k, USER_SIGN_URL)
                       /\ HasKey(c.result, "sign_in") <=>
                              (\E m \in 1..Len(requests) :
                                   /\ requests[m].account = k
                                   /\ requests[m].url = USER_SIGN_URL
                                   /\ ~Failed(requests[m]))
                  ELSE pc = "sign_in" \/ Attempted(k, USER_SIGN_URL)

\* an account without a role has had its sign-in succeed
C7_Witness ==
    \E j \in 1..Len(requests) :
        /\ EmptyRoleList(requests[j])
        /\ requests[j].account \in Finished
        /\ HasKey(kurobbs[requests[j].account].result, "sign_in")
        /\ Len(kurobbs[requests[j].account].exceptions) = 1

----------------------------------------------------------------------------
(* C8 *)

\* the warnings logged by the loop (all but the one of line 211)
SkipWarnings ==
    {l \in 1..Len(log) :
        log[l].level = "WARNING" /\ log[l].msg # <<"name count mismatch">>}

\* the token at position k left no trace: no client, no request, no entry in the
\* aggregated results or errors, no "account k/n" record in the log
Untouched(k) ==
    /\ k \notin DOMAIN kurobbs
    /\ \A j \in 1..Len(requests) : requests[j].account # k
    /\ \A r \in 1..Len(all_results) : ~IsInfix(Bracket(account_names[k]), all_results[r])
    /\ \A r \in 1..Len(all_errors) : ~IsInfix(Bracket(account_names[k]), all_errors[r])
    /\ \A l \in 1..Len(log) : ~IsInfix(<<"account ">> \o Str(k) \o <<"/">>, log[l].msg)

\* the tokens around the empty ones are processed
OthersProcessed ==
    \A k \in Finished :
        ~Blank(tokens[k]) => Attempted(k, USER_MINE_URL) /\ Attempted(k, USER_SIGN_URL)

\* C8 as claimed: an empty token is skipped without a trace but for a warning
\* logged for it, and the tokens around it are processed
C8_EmptyTokenWarned ==
    /\ \A k \in 1..Len(tokens) : Blank(tokens[k]) => Untouched(k)
    /\ Cardinality(SkipWarnings) >= Cardinality({k \in Finished : Blank(tokens[k])})
    /\ OthersProcessed

\* C8, amended: an empty token is skipped without a trace, and no warning is
\* logged for it either; the tokens around it are processed.
C8_EmptyTokenSkipped ==
    /\ \A k \in 1..Len(tokens) : Blank(tokens[k]) => Untouched(k)
    /\ SkipWarnings = {}
    /\ OthersProcessed

\* a run over an empty token followed by a token has ended
C8_Witness ==
    /\ pc = "done"
    /\ Len(tokens) > 1
    /\ Blank(tokens[1])
    /\ Attempted(2, USER_SIGN_URL)

----------------------------------------------------------------------------
(* C9 *)

\* the entries of ACCOUNT_NAMES
ConfiguredNames == ParseList(account_names_str)

\* C9: when the count of configured names differs from the count of tokens,
\* every account is named "Account k" by its position k in the token list; when
\* the counts agree (and are not zero), the account at position k is given the
\* k-th configured name, skipped tokens counting as positions.
C9_Names ==
    \A k \in DOMAIN kurobbs :
        kurobbs[k].account_name =
            IF Len(ConfiguredNames) = Len(tokens)
            THEN ConfiguredNames[k]
            ELSE <<"Account">> \o Str(k)

\* two names were configured for one token, and its client was built
C9_Witness ==
    /\ Len(ConfiguredNames) > Len(tokens)
    /\ DOMAIN kurobbs # {}

----------------------------------------------------------------------------
(* C10 *)

\* C10: requests go out account by account and, within an account, in the order
\* profile lookup, role lookup, reward check-in, community sign-in: the role
\* lookup right after a profile answer holding mine.userId, the check-in right
\* after a role answer holding a role, the sign-in right after the request that
\* ended the check-in, and an account's first request right after the sign-in
\* of the account before it.
C10_RequestOrder ==
    \A j \in 1..Len(requests) :
        LET q == requests[j]
            first == j = 1 \/ requests[j - 1].account # q.account
        IN /\ j > 1 =>
                /\ requests[j - 1].account <= q.account
                /\ first => requests[j - 1].url = USER_SIGN_URL
           /\ first <=> q.url = USER_MINE_URL
           /\ q.url = FIND_ROLE_LIST_API_URL =>
                /\ requests[j - 1].url = USER_MINE_URL
                /\ ~Failed(requests[j - 1])
                /\ q.data.queryUserId = requests[j - 1].res.data.mine.userId
           /\ q.url = SIGN_URL =>
                /\ requests[j - 1].url = FIND_ROLE_LIST_API_URL
                /\ ~Failed(requests[j - 1])
           /\ q.url = USER_SIGN_URL =>
                /\ ~first
                /\ requests[j - 1].url # USER_SIGN_URL
                /\ requests[j - 1].url = SIGN_URL \/ Failed(requests[j - 1])

\* two accounts have each issued their four requests
C10_Witness ==
    /\ Len(requests) = 8
    /\ requests[4].account # requests[5].account

====
